---- MODULE Spec2Model ----
(***************************************************************************)
(* The six "start of message" marker finders of distinct_14_chars.rs, run  *)
(* by a harness that calls every finder on every message, as main.rs does. *)
(*                                                                         *)
(* A byte is a number in 0..255 and a slice &[u8] a sequence of bytes.     *)
(* Offsets into slices are 0-based as in the source; the 1-based TLA+      *)
(* sequence index of offset o is o + 1.                                    *)
(* A u32 bit mask is represented by the set of the positions (0..31) of    *)
(* its one bits: 1 << n is {n}, ^ is the symmetric difference, & the       *)
(* intersection, | the union and count_ones the cardinality.  No shift     *)
(* reaches position 32, so no bit is ever lost.                            *)
(***************************************************************************)
EXTENDS Integers, Sequences, FiniteSets, TLC

(***************************************************************************)
(* Program constants.                                                      *)
(***************************************************************************)
WindowLen == 14
MaskBits == 32
Repeat == 3
NumSolutions == 6

(***************************************************************************)
(* Bounds of the model.                                                    *)
(***************************************************************************)
MaxLen == 18
MaxBlock == 2

(***************************************************************************)
(* The messages.                                                           *)
(***************************************************************************)
Sample1 ==
  <<109, 106, 113, 106, 112, 113, 109, 103, 98, 108, 106, 115, 112, 104, 100,
    122, 116, 110, 118, 106, 102, 113, 119, 114, 99, 103, 115, 109, 108, 98>>
Sample2 ==
  <<98, 118, 119, 98, 106, 112, 108, 98, 103, 118, 98, 104, 115, 114, 108,
    112, 103, 100, 109, 106, 113, 119, 102, 116, 118, 110, 99, 122>>
Sample3 ==
  <<110, 122, 110, 114, 110, 102, 114, 102, 110, 116, 106, 102, 109, 118, 102,
    119, 109, 122, 100, 102, 106, 108, 118, 116, 113, 110, 98, 104, 99, 112,
    114, 115, 103>>
SampleMessages == <<Sample1, Sample2, Sample3>>

\* The letters a, b, c, ...: n pairwise distinct lowercase bytes.
Letters(n) == [p \in 1..n |-> 96 + p]

\* Bytes written over a run of letters: 0, 'a', 'b' and 130 ('b' + 32).
PatchBytes == {0, 97, 98, 130}

Blocks == UNION {[1..b -> PatchBytes] : b \in 0..MaxBlock}

Overwrite(s, at, blk) ==
  [p \in 1..Len(s) |-> IF p >= at /\ p < at + Len(blk) THEN blk[p - at + 1] ELSE s[p]]

\* Every run of letters of length 0..MaxLen with one block of at most
\* MaxBlock consecutive bytes overwritten.
Inputs ==
  {Overwrite(Letters(n), at, blk) :
     <<n, at, blk>> \in {t \in (0..MaxLen) \X (1..MaxLen) \X Blocks :
                          t[2] + Len(t[3]) <= t[1] + 1}}

MessageSets == {SampleMessages} \cup {<<i>> : i \in Inputs}

(***************************************************************************)
(* u32 masks.                                                              *)
(***************************************************************************)
ZeroMask == {}
Shl1(n) == {n}
Xor(a, b) == (a \ b) \cup (b \ a)
And(a, b) == a \cap b
Or(a, b) == a \cup b
CountOnes(a) == Cardinality(a)

(***************************************************************************)
(* Option<usize> and the outcome of an invocation.                         *)
(***************************************************************************)
None == [some |-> FALSE, v |-> 0]
Some(n) == [some |-> TRUE, v |-> n]
Returned(n) == [tag |-> "returned", val |-> n]
Panicked == [tag |-> "panicked", val |-> 0]

\* .map(|i| i + 14)
MapAdd(opt) == IF opt.some THEN Some(opt.v + WindowLen) ELSE None

\* .unwrap()
Unwrap(opt) == IF opt.some THEN Returned(opt.v) ELSE Panicked

(***************************************************************************)
(* slice.windows(14): the windows at offsets 0 .. len - 14, none when the  *)
(* slice is shorter than 14.                                               *)
(***************************************************************************)
NumWindows(i) == IF Len(i) >= WindowLen THEN Len(i) - WindowLen + 1 ELSE 0
Window(i, o) == SubSeq(i, o + 1, o + WindowLen)

Min(S) == CHOOSE a \in S : \A b \in S : a <= b
Max(S) == CHOOSE a \in S : \A b \in S : a >= b

WindowOffsets(i) == 0..(NumWindows(i) - 1)

\* Iterator::position: the offset of the first window the closure accepts,
\* hits being the offsets of the windows it says true for.
Position(hits) == IF hits = {} THEN None ELSE Some(Min(hits))

(***************************************************************************)
(* simple_solution, faster_solution, faster_with_vec_solution.             *)
(***************************************************************************)
SimpleClosure(w) == Cardinality({w[p] : p \in 1..Len(w)}) = WindowLen

simple_solution(i) == 
  Unwrap(MapAdd(Position({o \in WindowOffsets(i) : SimpleClosure(Window(i, o))})))

RECURSIVE FasterLoop(_, _, _)
FasterLoop(w, p, hash_set) ==
  IF p > Len(w) THEN TRUE
  ELSE IF w[p] \in hash_set THEN FALSE
  ELSE FasterLoop(w, p + 1, hash_set \cup {w[p]})

FasterClosure(w) == FasterLoop(w, 1, {})

faster_solution(i) == 
  Unwrap(MapAdd(Position({o \in WindowOffsets(i) : FasterClosure(Window(i, o))})))

RECURSIVE VecLoop(_, _, _)
VecLoop(w, p, vec) ==
  IF p > Len(w) THEN TRUE
  ELSE IF \E q \in 1..Len(vec) : vec[q] = w[p] THEN FALSE
  ELSE VecLoop(w, p + 1, Append(vec, w[p]))

VecClosure(w) == VecLoop(w, 1, <<>>)

faster_with_vec_solution(i) == 
  Unwrap(MapAdd(Position({o \in WindowOffsets(i) : VecClosure(Window(i, o))})))

(***************************************************************************)
(* The state: the harness's loops, the locals of the finder being run and  *)
(* the outcomes observed so far.                                           *)
(***************************************************************************)
VARIABLES
  messages,  \* the messages handed to every finder
  fn,        \* the finder being timed, 1..6 in main's order; 7 when main is over
  msg,       \* the message of the current call (1-based)
  rep,       \* repetitions of the current call already made
  pc,        \* "idle" between calls, else the loop the running finder is in
  k,         \* offset of the window the position loop is at
  arr,       \* faster_with_array_solution: the 14 slots
  index,     \* faster_with_array_solution: the fill-count
  x,         \* faster_with_array_solution: offset in the window of the next byte
  filter,    \* benny_solution: the mask
  idx,       \* david_a_perez_solution: the cursor
  state,     \* david_a_perez_solution: the mask of the last scan
  results    \* results[f][m]: the outcomes of the calls of finder f on message m

vars == <<messages, fn, msg, rep, pc, k, arr, index, x, filter, idx, state, results>>

input == messages[msg]

ZeroArr == [p \in 1..WindowLen |-> 0]

Init ==
  /\ messages \in MessageSets
  /\ fn = 1
  /\ msg = 1
  /\ rep = 0
  /\ pc = "idle"
  /\ k = 0
  /\ arr = ZeroArr
  /\ index = 0
  /\ x = 0
  /\ filter = ZeroMask
  /\ idx = 0
  /\ state = ZeroMask
  /\ results = [f \in 1..NumSolutions |-> [m \in 1..Len(messages) |-> <<>>]]

\* The call ends with outcome out: check_timings goes on with the next
\* repetition, message or finder.  A panic ends the call it occurs in and is
\* recorded as its outcome; the calls that follow are made all the same, as
\* for the #[test] functions, each of which calls one finder on its own.
Finish(out) ==
  /\ results' = [results EXCEPT ![fn][msg] = Append(@, out)]
  /\ pc' = "idle"
  /\ IF rep + 1 < Repeat
       THEN /\ rep' = rep + 1
            /\ UNCHANGED <<msg, fn>>
       ELSE /\ rep' = 0
            /\ IF msg < Len(messages)
                 THEN /\ msg' = msg + 1
                      /\ UNCHANGED fn
                 ELSE /\ msg' = 1
                      /\ fn' = fn + 1
  /\ UNCHANGED messages

Call(f) == pc = "idle" /\ fn = f

SimpleCall ==
  /\ Call(1)
  /\ Finish(simple_solution(input))
  /\ UNCHANGED <<k, arr, index, x, filter, idx, state>>

FasterCall ==
  /\ Call(2)
  /\ Finish(faster_solution(input))
  /\ UNCHANGED <<k, arr, index, x, filter, idx, state>>

VecCall ==
  /\ Call(3)
  /\ Finish(faster_with_vec_solution(input))
  /\ UNCHANGED <<k, arr, index, x, filter, idx, state>>

(***************************************************************************)
(* faster_with_array_solution, one byte of a window per step.              *)
(***************************************************************************)
\* Variant: the byte is looked for in all 14 slots, filled or not.
ArrayContainsAllSlots(a, n, b) == \E q \in 0..(WindowLen - 1) : a[q + 1] = b

\* for i in 0..index { if arr[i] == *x { return false; } }
ArrayContains(a, n, b) == \E q \in 0..(n - 1) : a[q + 1] = b

ArrayCall ==
  /\ Call(4)
  /\ k' = 0
  /\ arr' = ZeroArr
  /\ index' = 0
  /\ x' = 0
  /\ IF NumWindows(input) = 0
       THEN Finish(Unwrap(MapAdd(None)))
       ELSE /\ pc' = "array"
            /\ UNCHANGED <<messages, fn, msg, rep, results>>
  /\ UNCHANGED <<filter, idx, state>>

\* The closure returned false: position goes on to the next window, with a
\* fresh array and fill-count, or is out of windows.
ArrayReject ==
  /\ pc = "array"
  /\ ArrayContains(arr, index, Window(input, k)[x + 1])
  /\ IF k + 1 < NumWindows(input)
       THEN /\ k' = k + 1
            /\ arr' = ZeroArr
            /\ index' = 0
            /\ x' = 0
            /\ UNCHANGED <<messages, fn, msg, rep, pc, results>>
       ELSE /\ Finish(Unwrap(MapAdd(None)))
            /\ UNCHANGED <<k, arr, index, x>>
  /\ UNCHANGED <<filter, idx, state>>

\* arr[index] = *x; index += 1; after the last byte the closure returns true.
\* A write past the last slot is an index-out-of-bounds panic.
ArrayPush ==
  /\ pc = "array"
  /\ ~ArrayContains(arr, index, Window(input, k)[x + 1])
  /\ IF index >= WindowLen
       THEN /\ Finish(Panicked)
            /\ UNCHANGED <<arr, index, x>>
       ELSE /\ arr' = [arr EXCEPT ![index + 1] = Window(input, k)[x + 1]]
            /\ index' = index + 1
            /\ x' = x + 1
            /\ IF x + 1 = WindowLen
                 THEN Finish(Unwrap(MapAdd(Some(k))))
                 ELSE UNCHANGED <<messages, fn, msg, rep, pc, results>>
  /\ UNCHANGED <<k, filter, idx, state>>

faster_with_array_solution == ArrayCall \/ ArrayReject \/ ArrayPush

(***************************************************************************)
(* benny_solution, one window per step.                                    *)
(***************************************************************************)
\* Variant: one bit per byte value, no reduction.
BitOfWide(byte) == byte

BitOf(byte) == byte % MaskBits

\* .take(14 - 1).for_each(|c| filter ^= 1 << (c % 32))
RECURSIVE ForEachToggle(_, _, _, _)
ForEachToggle(i, p, n, f) ==
  IF p > n \/ p > Len(i) THEN f
  ELSE ForEachToggle(i, p + 1, n, Xor(f, Shl1(BitOf(i[p]))))

\* Variant: the first 14 bytes are toggled in, not the first 13.
BennyPrefixWhole(i) == ForEachToggle(i, 1, WindowLen, ZeroMask)

BennyPrefix(i) == ForEachToggle(i, 1, WindowLen - 1, ZeroMask)

\* Variant: the byte toggled out is the last of the window, not the first.
BennyClosureLastOut(f, w) ==
  LET last == w[Len(w)]
      f1 == Xor(f, Shl1(BitOf(last)))
  IN  [res |-> CountOnes(f1) = WindowLen, filter |-> Xor(f1, Shl1(BitOf(last)))]

\* The closure of position: the verdict on window w and the mask it leaves.
BennyClosure(f, w) ==
  LET first == w[1]
      last == w[Len(w)]
      f1 == Xor(f, Shl1(BitOf(last)))
      res == CountOnes(f1) = WindowLen
      f2 == Xor(f1, Shl1(BitOf(first)))
  IN  [res |-> res, filter |-> f2]

\* Variant: the mask is not cleared on entry (a mask that outlives the call).
BennyCallStale ==
  /\ Call(5)
  /\ filter' = ForEachToggle(input, 1, WindowLen - 1, filter)
  /\ k' = 0
  /\ IF NumWindows(input) = 0
       THEN Finish(Unwrap(MapAdd(None)))
       ELSE /\ pc' = "benny"
            /\ UNCHANGED <<messages, fn, msg, rep, results>>
  /\ UNCHANGED <<arr, index, x, idx, state>>

BennyCall ==
  /\ Call(5)
  /\ filter' = BennyPrefix(input)
  /\ k' = 0
  /\ IF NumWindows(input) = 0
       THEN Finish(Unwrap(MapAdd(None)))
       ELSE /\ pc' = "benny"
            /\ UNCHANGED <<messages, fn, msg, rep, results>>
  /\ UNCHANGED <<arr, index, x, idx, state>>

BennyWindow ==
  /\ pc = "benny"
  /\ LET r == BennyClosure(filter, Window(input, k))
     IN  /\ filter' = r.filter
         /\ IF r.res
              THEN /\ Finish(Unwrap(MapAdd(Some(k))))
                   /\ UNCHANGED k
              ELSE IF k + 1 < NumWindows(input)
                     THEN /\ k' = k + 1
                          /\ UNCHANGED <<messages, fn, msg, rep, pc, results>>
                     ELSE /\ Finish(Unwrap(MapAdd(None)))
                          /\ UNCHANGED k
  /\ UNCHANGED <<arr, index, x, idx, state>>

benny_solution == BennyCall \/ BennyWindow

(***************************************************************************)
(* david_a_perez_solution, one iteration of the while loop per step.       *)
(***************************************************************************)
\* slice.iter().rposition(closure): the closure is applied to the bytes from
\* the last to the first, p being the 1-based index of the byte at hand; the
\* answer is the 0-based index of the first byte the closure says true for.
RECURSIVE RPosition(_, _, _)
RPosition(slice, p, st) ==
  IF p = 0 THEN [pos |-> None, state |-> st]
  ELSE LET bit_idx == BitOf(slice[p])
           res == And(st, Shl1(bit_idx)) # ZeroMask
           st2 == Or(st, Shl1(bit_idx))
       IN  IF res THEN [pos |-> Some(p - 1), state |-> st2]
           ELSE RPosition(slice, p - 1, st2)

\* Variant: the scan starts from the mask the previous scan left.
DavidScanStale(slice) == RPosition(slice, Len(slice), state)

\* let mut state = 0_u32; slice.iter().rposition(...)
DavidScan(slice) == RPosition(slice, Len(slice), ZeroMask)

\* Variants: the cursor goes one too far, or stops on the earlier occurrence.
DavidAdvanceFar(i, pos) == i + pos + 2
DavidAdvanceStuck(i, pos) == i + pos

\* idx += pos + 1
DavidAdvance(i, pos) == i + pos + 1

\* input.get(idx..idx + 14)
Get(i, from, to) == IF to <= Len(i) THEN Some(from) ELSE None

DavidCall ==
  /\ Call(6)
  /\ idx' = 0
  /\ pc' = "david"
  /\ UNCHANGED <<messages, fn, msg, rep, results, k, arr, index, x, filter, state>>

DavidLoop ==
  /\ pc = "david"
  /\ IF Get(input, idx, idx + WindowLen).some
       THEN LET r == DavidScan(SubSeq(input, idx + 1, idx + WindowLen))
            IN  /\ state' = r.state
                /\ IF r.pos.some
                     THEN /\ idx' = DavidAdvance(idx, r.pos.v)
                          /\ UNCHANGED <<messages, fn, msg, rep, pc, results>>
                     ELSE /\ Finish(Returned(idx + WindowLen))
                          /\ UNCHANGED idx
       ELSE /\ Finish(Returned(0))
            /\ UNCHANGED <<idx, state>>
  /\ UNCHANGED <<k, arr, index, x, filter>>

david_a_perez_solution == DavidCall \/ DavidLoop

Next ==
  \/ SimpleCall
  \/ FasterCall
  \/ VecCall
  \/ faster_with_array_solution
  \/ benny_solution
  \/ david_a_perez_solution

Spec == Init /\ [][Next]_vars

\* The program is sequential: the loop of a running call takes its next
\* iteration.
FairSpec == Spec /\ WF_vars(DavidLoop)

(***************************************************************************)
(* Vocabulary of the properties, stated on the messages alone.             *)
(***************************************************************************)
Offsets(i) == 0..(Len(i) - 14)
WindowAt(i, o) == [p \in 1..14 |-> i[o + p]]
PairwiseDistinct(w) == \A p \in 1..Len(w) : \A q \in (p + 1)..Len(w) : w[p] # w[q]
Congruent(a, b) == a % 32 = b % 32
DistinctMod32(w) ==
  \A p \in 1..Len(w) : \A q \in (p + 1)..Len(w) : ~Congruent(w[p], w[q])
DistinctOffsets(i) == {o \in Offsets(i) : PairwiseDistinct(WindowAt(i, o))}
Mod32Offsets(i) == {o \in Offsets(i) : DistinctMod32(WindowAt(i, o))}
Lowercase(i) == \A p \in 1..Len(i) : i[p] >= 97 /\ i[p] <= 122
Finders == 1..6
Outcomes(f, m) == {results[f][m][j] : j \in 1..Len(results[f][m])}
MainOver == fn = 7

(***************************************************************************)
(* C1: whenever a message has a window of 14 pairwise distinct bytes,      *)
(* every one of the six finders returns the offset of the first such       *)
(* window plus 14.                                                         *)
(***************************************************************************)
C1_FirstDistinctWindow ==
  \A m \in 1..Len(messages) :
    LET D == DistinctOffsets(messages[m])
    IN  D # {} =>
          \A f \in Finders : \A out \in Outcomes(f, m) : out = Returned(Min(D) + 14)

(***************************************************************************)
(* C2: on a message of lowercase letters that has a window of 14 pairwise  *)
(* distinct bytes, the six finders all return the offset of the first such *)
(* window plus 14; a fully distinct message of exactly 14 bytes gives 14.  *)
(***************************************************************************)
C2_LowercaseAgree ==
  \A m \in 1..Len(messages) :
    LET D == DistinctOffsets(messages[m])
    IN  (Len(messages[m]) >= 14 /\ Lowercase(messages[m]) /\ D # {}) =>
          \A f \in Finders : \A out \in Outcomes(f, m) : out = Returned(Min(D) + 14)

C2_Witness ==
  /\ MainOver
  /\ Len(messages) = 1
  /\ Len(messages[1]) = 14
  /\ Lowercase(messages[1])
  /\ \A f \in Finders : Outcomes(f, 1) = {Returned(14)}

(***************************************************************************)
(* C3: when a message has no window of 14 pairwise distinct bytes, every   *)
(* one of the six finders panics and none returns a number.                *)
(***************************************************************************)
C3_AllFail ==
  \A m \in 1..Len(messages) :
    DistinctOffsets(messages[m]) = {} =>
      \A f \in Finders : \A out \in Outcomes(f, m) : out = Panicked

(***************************************************************************)
(* C4: a finder is a pure function of its message: all calls of a finder   *)
(* on a message have the same outcome, whatever ran in between; no step    *)
(* changes a message; benny_solution's mask and david_a_perez_solution's   *)
(* cursor start every call afresh, whatever the previous call left.        *)
(***************************************************************************)
OddBits(bytes) ==
  {j \in 0..31 : Cardinality({p \in 1..Len(bytes) : bytes[p] % 32 = j}) % 2 = 1}

Prefix(i, n) == [p \in 1..(IF Len(i) < n THEN Len(i) ELSE n) |-> i[p]]

C4_Pure ==
  [][/\ messages' = messages
     /\ \A f \in Finders : \A m \in 1..Len(messages) : Cardinality(Outcomes(f, m)') <= 1
     /\ (pc = "idle" /\ fn = 5) => filter' = OddBits(Prefix(input, 13))
     /\ (pc = "idle" /\ fn = 6) => idx' = 0]_vars

C4_Witness ==
  /\ MainOver
  /\ Len(messages) = 3
  /\ \A f \in Finders : \A m \in 1..3 : Len(results[f][m]) = 3
  /\ filter # ZeroMask
  /\ idx # 0

(***************************************************************************)
(* C5: on every message the four comparing finders accept a window exactly *)
(* when its 14 bytes are pairwise distinct, byte 0 included, so the four   *)
(* return the same position or all panic.  While the array finder is in a  *)
(* window, the fill-count is at most 13, the filled slots hold the bytes   *)
(* of the window read so far (which are pairwise distinct) and the other   *)
(* slots still hold the fill value 0.                                      *)
(***************************************************************************)
Contract(i) ==
  LET D == DistinctOffsets(i)
  IN  IF D = {} THEN Panicked ELSE Returned(Min(D) + 14)

C5_FourAgree ==
  /\ \A m \in 1..Len(messages) :
       LET c == Contract(messages[m])
       IN  \A f \in 1..4 : \A out \in Outcomes(f, m) : out = c
  /\ pc = "array" =>
       /\ index <= 13
       /\ index = x
       /\ k \in Offsets(input)
       /\ \A q \in 1..14 : arr[q] = IF q <= index THEN input[k + q] ELSE 0
       /\ PairwiseDistinct(SubSeq(arr, 1, index))
       /\ \A o \in 0..(k - 1) : ~PairwiseDistinct(WindowAt(input, o))
       /\ LET d == PairwiseDistinct(WindowAt(input, k))
          IN  /\ SimpleClosure(Window(input, k)) = d
              /\ FasterClosure(Window(input, k)) = d
              /\ VecClosure(Window(input, k)) = d

C5_Witness ==
  /\ MainOver
  /\ Len(messages) = 1
  /\ \A f \in 1..4 : Outcomes(f, 1) = {Returned(15)}
  /\ \E p \in 2..15 : messages[1][p] = 0

(***************************************************************************)
(* C6: benny_solution and david_a_perez_solution take two bytes congruent  *)
(* modulo 32 for equal: when a message has a window of 14 bytes pairwise   *)
(* distinct modulo 32, both return the offset of the first such window     *)
(* plus 14, and a window either of them accepts never holds two bytes      *)
(* congruent modulo 32.                                                    *)
(***************************************************************************)
C6_Mod32 ==
  \A m \in 1..Len(messages) :
    LET i == messages[m]
        D == Mod32Offsets(i)
    IN  \A f \in {5, 6} : \A out \in Outcomes(f, m) :
          /\ D # {} => out = Returned(Min(D) + 14)
          /\ (out.tag = "returned" /\ ~(f = 6 /\ out.val = 0)) => (out.val - 14) \in D

C6_Witness ==
  /\ MainOver
  /\ Len(messages) = 1
  /\ Outcomes(1, 1) = {Returned(14)}
  /\ Outcomes(5, 1) = {Returned(16)}
  /\ Outcomes(6, 1) = {Returned(16)}

(***************************************************************************)
(* C7: when benny_solution is about to evaluate the window at offset k,    *)
(* bit j of the mask is set exactly when an odd number of the 13 bytes at  *)
(* indices k .. k+12 are congruent to j modulo 32; so with the byte at     *)
(* index k+13 toggled in the mask has 14 bits set exactly when the window  *)
(* is pairwise distinct modulo 32; and once the byte at index k is toggled *)
(* out the mask is the one of the 13 bytes at indices k+1 .. k+13.         *)
(***************************************************************************)
C7_MaskInvariant ==
  /\ [](pc = "benny" =>
          /\ k \in Offsets(input)
          /\ filter = OddBits([p \in 1..13 |-> input[k + p]])
          /\ (Cardinality(Xor(filter, {input[k + 14] % 32})) = 14)
               <=> DistinctMod32(WindowAt(input, k)))
  /\ [][pc = "benny" => filter' = OddBits([p \in 1..13 |-> input[k + 1 + p]])]_vars

C7_Witness ==
  /\ pc = "benny"
  /\ k = 2
  /\ Cardinality(filter) = 13
  /\ DistinctMod32(WindowAt(input, 2))
  /\ \E p \in 1..Len(input) : input[p] = 130

(***************************************************************************)
(* C8: david_a_perez_solution skips no acceptable window: when the cursor  *)
(* moves from idx to idx', the byte at index idx' - 1 is congruent modulo  *)
(* 32 to a later byte of the window at idx, every window that starts at an *)
(* offset from idx to idx' - 1 holds both, and none is pairwise distinct   *)
(* modulo 32.                                                              *)
(***************************************************************************)
C8_NoSkip ==
  [][(pc = "david" /\ idx' # idx) =>
       /\ idx' > idx
       /\ \E j \in idx'..(idx + 13) :
            /\ Congruent(input[j + 1], input[idx'])
            /\ \A o \in idx..(idx' - 1) : o <= idx' - 1 /\ j <= o + 13
       /\ \A o \in idx..(idx' - 1) : o \notin Mod32Offsets(input)]_vars

C8_Witness ==
  /\ pc = "david"
  /\ idx = 3
  /\ input[3] = 0
  /\ input[4] = 0
  /\ Mod32Offsets(input) = {3, 4}
  /\ results[6][1] = <<>>

(***************************************************************************)
(* C9: an iteration of david_a_perez_solution on the window at idx: if     *)
(* some byte of the window is congruent modulo 32 to a later byte of the   *)
(* window, the cursor advances by pos + 1, pos being the largest offset    *)
(* (0..12) of such a byte, which is between 1 and 13; else the call        *)
(* returns idx + 14.  The mask of the scan holds the bits of the bytes     *)
(* scanned in this window and no other.                                    *)
(***************************************************************************)
Earlier(w) == {a \in 0..12 : \E b \in (a + 1)..13 : Congruent(w[a + 1], w[b + 1])}

C9_Advance ==
  [][(pc = "david" /\ idx + 14 <= Len(input)) =>
       LET w == WindowAt(input, idx)
           from == IF Earlier(w) = {} THEN 0 ELSE Max(Earlier(w))
       IN  /\ state' = {w[p + 1] % 32 : p \in from..13}
           /\ IF Earlier(w) # {}
                THEN /\ pc' = "david"
                     /\ idx' = idx + Max(Earlier(w)) + 1
                     /\ idx' - idx >= 1
                     /\ idx' - idx <= 13
                     /\ results' = results
                ELSE /\ pc' = "idle"
                     /\ results'[fn][msg] = Append(results[fn][msg], Returned(idx + 14))]_vars

C9_Witness ==
  /\ pc = "david"
  /\ idx = 13
  /\ state = {0}
  /\ results[6][1] # <<>>

(***************************************************************************)
(* C10: david_a_perez_solution terminates on every message, shorter than   *)
(* 14 bytes or not: the cursor grows in every iteration that does not      *)
(* return, the loop ends as soon as idx + 14 exceeds the length and the    *)
(* call then returns 0; 0 is returned exactly when no window is pairwise   *)
(* distinct modulo 32, and any other value returned lies between 14 and    *)
(* the length of the message.                                              *)
(***************************************************************************)
C10_Terminates ==
  /\ [][pc = "david" =>
          /\ pc' = "david" => idx' > idx
          /\ idx + 14 > Len(input) =>
               /\ pc' = "idle"
               /\ results'[fn][msg] = Append(results[fn][msg], Returned(0))]_vars
  /\ [](\A m \in 1..Len(messages) : \A out \in Outcomes(6, m) :
          /\ out.tag = "returned"
          /\ out.val = 0 <=> Mod32Offsets(messages[m]) = {}
          /\ out.val # 0 => (out.val >= 14 /\ out.val <= Len(messages[m])))
  /\ [](pc = "david" => <>(pc = "idle"))

C10_Witness ==
  /\ MainOver
  /\ Len(messages) = 1
  /\ Len(messages[1]) = 13
  /\ results[6][1] = <<Returned(0), Returned(0), Returned(0)>>
====
